---- MODULE Spec2Model ----
(***************************************************************************)
(* The URL player widget of src/components/url-player.tsx: the PlayerState *)
(* record held by useState, the pending url text, the liked flag, the      *)
(* player ref, and one action per handler.                                 *)
(*                                                                         *)
(* Numbers are JavaScript numbers restricted to the non-negative values    *)
(* the media element reports.  A number is a reduced fraction [n, d]:      *)
(* d > 0 is the finite value n/d, [1, 0] is Infinity and [0, 0] is NaN.    *)
(* Division and multiplication are exact; IEEE rounding is not modelled.   *)
(*                                                                         *)
(* Text (url, src) is a sequence of one-character strings so that trim()   *)
(* is computed.  src is an optional text: [defined, value].                *)
(***************************************************************************)
EXTENDS Integers, Sequences, FiniteSets, TLC

\* ---------------------------------------------------------------- bounds
\* largest denominator of the fractions of the duration the element reports
MaxDen == 2
\* largest number of buffered ranges the element reports
MaxRanges == 2

\* --------------------------------------------------------------- numbers
RECURSIVE GCD(_, _)
GCD(a, b) == IF b = 0 THEN a ELSE GCD(b, a % b)

\* the number n/d in lowest terms; x/0 is Infinity, 0/0 is NaN
Norm(n, d) ==
  IF d = 0 THEN [n |-> IF n = 0 THEN 0 ELSE 1, d |-> 0]
  ELSE LET g == GCD(n, d) IN [n |-> n \div g, d |-> d \div g]

Num(k) == [n |-> k, d |-> 1]
NaN == [n |-> 0, d |-> 0]
IsNaN(x) == x.n = 0 /\ x.d = 0
IsFinite(x) == x.d > 0

\* JavaScript a / b and a * b on non-negative numbers
Div(a, b) == Norm(a.n * b.d, a.d * b.n)
Mul(a, b) == Norm(a.n * b.n, a.d * b.d)
\* a <= b; false when either side is NaN
Leq(a, b) ==
  /\ ~IsNaN(a) /\ ~IsNaN(b)
  /\ IF IsFinite(a) /\ IsFinite(b) THEN a.n * b.d <= b.n * a.d
     ELSE ~IsFinite(b)
\* JavaScript truthiness of a number: 0 and NaN are falsy
TruthyNum(x) == x.n # 0

\* ------------------------------------------------------------------ text
Whitespace == {" "}
RECURSIVE TrimStart(_)
TrimStart(s) ==
  IF s # <<>> /\ Head(s) \in Whitespace THEN TrimStart(Tail(s)) ELSE s
RECURSIVE TrimEnd(_)
TrimEnd(s) ==
  IF s # <<>> /\ s[Len(s)] \in Whitespace
  THEN TrimEnd(SubSeq(s, 1, Len(s) - 1)) ELSE s
\* String.prototype.trim
Trim(s) == TrimEnd(TrimStart(s))
\* JavaScript truthiness of a string: "" is falsy
TruthyText(s) == s # <<>>

undefined == [defined |-> FALSE, value |-> <<>>]
Str(s) == [defined |-> TRUE, value |-> s]
\* truthiness of the optional string src: undefined and "" are falsy
Truthy(src) == src.defined /\ TruthyText(src.value)

\* ------------------------------------------------------- preset catalog
\* presetVideos; the key stands for the source's (non-ASCII) key
presetVideos ==
  << [key |-> "rainforest", label |-> "rainforest white noise",
      url |-> <<"h", "t", "t", "p", "s", ":", "/", "/", "w", "w", "w", ".", "y",
       "o", "u", "t", "u", "b", "e", ".", "c", "o", "m", "/", "w", "a", "t",
       "c", "h", "?", "v", "=", "k", "H", "r", "4", "y", "a", "g", "0", "f",
       "q", "A">>] >>

\* Array.prototype.find: the first video with that key, or none (<<>>)
FindPreset(selectedKey) ==
  SelectSeq(presetVideos, LAMBDA video : video.key = selectedKey)

\* ------------------------------------------------------------ the state
defaultUrl == <<>>

\* mutant: the widget starts in the seeking state
initialState_Seeking ==
  [src |-> Str(defaultUrl), pip |-> FALSE, playing |-> FALSE,
   controls |-> FALSE, light |-> FALSE, volume |-> Num(1), muted |-> FALSE,
   played |-> Num(0), loaded |-> Num(0), duration |-> Num(0),
   playbackRate |-> Num(1), loop |-> FALSE, seeking |-> TRUE,
   loadedSeconds |-> Num(0), playedSeconds |-> Num(0)]

initialState ==
  [src |-> Str(defaultUrl), pip |-> FALSE, playing |-> FALSE,
   controls |-> FALSE, light |-> FALSE, volume |-> Num(1), muted |-> FALSE,
   played |-> Num(0), loaded |-> Num(0), duration |-> Num(0),
   playbackRate |-> Num(1), loop |-> FALSE, seeking |-> FALSE,
   loadedSeconds |-> Num(0), playedSeconds |-> Num(0)]

VARIABLES
  state,      \* PlayerState (useState)
  url,        \* the pending url text (useState)
  liked,      \* the heart toggle (useState)
  playerRef,  \* playerRef.current: "null" or "element"
  lastEv,     \* history: the last handler run and the values it read
  before,     \* history: the run of identical consecutive toggles
  scenario,   \* history: progress along the end-to-end scenario
  lastDuration, \* history: the duration of the latest onDurationChange
  view,       \* what the handlers of the last render closed over
  batch       \* events still to be delivered before the next render, the
              \* rendering one included; 0 outside a batch

vars ==
  <<state, url, liked, playerRef, lastEv, before, scenario, lastDuration,
    view, batch>>

\* the whole widget state
World == [state |-> state, url |-> url, liked |-> liked]
\* the values a render hands to its handlers and controls: the handlers read
\* url and state.seeking from their closure, the controls are disabled and
\* the player is rendered according to src
ViewOf(s, u) == [url |-> u, seeking |-> s.seeking, src |-> s.src]

\* ------------------------------------------- what the media element reports
\* fractions of the duration at which the element reports its clock
Fractions == {Norm(n, m) : n \in 0..MaxDen, m \in 1..MaxDen} \cap
             {f \in [n : 0..MaxDen, d : 1..MaxDen] : f.n <= f.d}
\* the clock of the end-to-end scenario: 30 s into 120 s
ScenarioClock == [currentTime |-> Num(30), duration |-> Num(120)]
\* player.duration: NaN until known, 0 for empty media, else a length in
\* seconds (the scenario's)
Durations == {NaN, Num(0), ScenarioClock.duration}
\* positions within a duration (0 <= time <= duration; 0 while unknown)
TimesOf(duration) ==
  IF IsNaN(duration) THEN {Num(0)}
  ELSE {Mul(f, duration) : f \in Fractions} \cup
       {t \in {ScenarioClock.currentTime} : Leq(t, duration)}
\* where a buffered range may end: the start, the scenario's position, the
\* end of the media
RangeEnds(duration) ==
  {t \in TimesOf(duration) :
     t \in {Num(0), ScenarioClock.currentTime, duration}}
\* player.buffered as the sequence of the end() of each range: TimeRanges
\* are ordered and disjoint, so the ends increase
BufferedOf(duration) ==
  {b \in UNION {[1..k -> RangeEnds(duration)] : k \in 0..MaxRanges} :
     \A i, j \in DOMAIN b : i < j => (Leq(b[i], b[j]) /\ b[i] # b[j])}

\* text the user may type into the url box
UrlTexts == {<<>>, <<" ">>, <<" ", "a">>}
\* keys a caller may select: the catalog's and one that is not in it
PresetKeys == {presetVideos[i].key : i \in DOMAIN presetVideos} \cup {"other"}

\* ------------------------------------------------------------------ render
\* largest number of events delivered to the handlers of one render
MaxBatch == 2
\* the re-render that follows an event before the next one is delivered
Rendered == view' = ViewOf(state', url')
\* after a handler: inside a batch the render is put off, else it follows
Rerender ==
  IF batch > 1 THEN batch' = batch - 1 /\ UNCHANGED view
  ELSE batch' = 0 /\ Rendered

\* ----------------------------------------------------------------- history
Ev(op) ==
  [op |-> op, key |-> "", currentTime |-> NaN, duration |-> NaN,
   bufferedLength |-> 0, bufferedEnd |-> NaN]
NoWorld == [state |-> initialState, url |-> <<>>, liked |-> FALSE]
Toggles == {"playPause", "toggleMuted", "toggleLoop"}
\* run = how many times in a row the same toggle has just been applied
\* (at most 2), w = the widget state when that run started
BeforeNext(op) ==
  IF op \notin Toggles THEN [run |-> 0, w |-> NoWorld]
  ELSE IF lastEv.op = op /\ before.run = 1
       THEN [run |-> 2, w |-> before.w]
       ELSE [run |-> 1, w |-> World]
\* the end-to-end scenario: (type a url)* ; load ; play ; timeUpdate(30,120)
\* ; ended.  "off" once the run departs from it.
ScenarioNext(ev) ==
  CASE scenario = "start" /\ ev.op = "setUrl" -> "start"
    [] scenario = "start" /\ ev.op = "load"
         /\ TruthyText(Trim(view.url)) -> "loaded"
    [] scenario = "loaded" /\ ev.op = "playPause" -> "playing"
    [] scenario = "playing" /\ ev.op = "timeUpdate"
         /\ ev.currentTime = ScenarioClock.currentTime
         /\ ev.duration = ScenarioClock.duration -> "timed"
    [] scenario = "timed" /\ ev.op = "ended" -> "ended"
    [] OTHER -> "off"
Hist(ev) ==
  /\ lastEv' = ev
  /\ before' = BeforeNext(ev.op)
  /\ scenario' = ScenarioNext(ev)
  /\ lastDuration' = IF ev.op = "durationChange"
                     THEN [seen |-> TRUE, value |-> ev.duration]
                     ELSE lastDuration
  /\ Rerender

\* ---------------------------------------------------------------- handlers
\* the ref callback: a null player is ignored, so the ref survives unmount
setPlayerRef(player) == IF player = "null" THEN playerRef ELSE player
\* the commit that follows a change of src: ReactPlayer is rendered only
\* when src is truthy, and mounting or unmounting it calls the ref callback
Commit(src) ==
  playerRef' = setPlayerRef(IF Truthy(src) THEN "element" ELSE "null")

\* mutant: the negation is dropped
handlePlayPause_NoFlip ==
  /\ state' = [state EXCEPT !.playing = state.playing]
  /\ UNCHANGED <<url, liked, playerRef>>

handlePlayPause ==
  /\ state' = [state EXCEPT !.playing = ~state.playing]
  /\ UNCHANGED <<url, liked, playerRef>>

\* mutant: stop clears src but forgets playing
handleStop_KeepsPlaying ==
  /\ state' = [state EXCEPT !.src = undefined]
  /\ Commit(state'.src)
  /\ UNCHANGED <<url, liked>>

\* mutant: stop also rewinds the progress fields
handleStop_ResetsProgress ==
  /\ state' = [state EXCEPT !.src = undefined, !.playing = FALSE,
                            !.played = Num(0), !.playedSeconds = Num(0)]
  /\ Commit(state'.src)
  /\ UNCHANGED <<url, liked>>

handleStop ==
  /\ state' = [state EXCEPT !.src = undefined, !.playing = FALSE]
  /\ Commit(state'.src)
  /\ UNCHANGED <<url, liked>>

handleToggleMuted ==
  /\ state' = [state EXCEPT !.muted = ~state.muted]
  /\ UNCHANGED <<url, liked, playerRef>>

\* mutant: the button switches loop on instead of flipping it
handleToggleLoop_SetsOn ==
  /\ state' = [state EXCEPT !.loop = TRUE]
  /\ UNCHANGED <<url, liked, playerRef>>

handleToggleLoop ==
  /\ state' = [state EXCEPT !.loop = ~state.loop]
  /\ UNCHANGED <<url, liked, playerRef>>

\* mutant: the seeking guard is missing
handleProgress_NoSeekGuard(buffered, duration) ==
  /\ IF playerRef = "null" \/ Len(buffered) = 0
     THEN UNCHANGED state
     ELSE state' = [state EXCEPT
                      !.loadedSeconds = buffered[Len(buffered)],
                      !.loaded = Div(buffered[Len(buffered)], duration)]
  /\ UNCHANGED <<url, liked, playerRef>>

\* mutant: the end of the first buffered range is taken, not the last
handleProgress_FirstRange(buffered, duration) ==
  /\ IF playerRef = "null" \/ view.seeking \/ Len(buffered) = 0
     THEN UNCHANGED state
     ELSE state' = [state EXCEPT
                      !.loadedSeconds = buffered[1],
                      !.loaded = Div(buffered[1], duration)]
  /\ UNCHANGED <<url, liked, playerRef>>

\* player.buffered and player.duration are read from the element
handleProgress(buffered, duration) ==
  /\ IF playerRef = "null" \/ view.seeking \/ Len(buffered) = 0
     THEN UNCHANGED state
     ELSE state' = [state EXCEPT
                      !.loadedSeconds = buffered[Len(buffered)],
                      !.loaded = Div(buffered[Len(buffered)], duration)]
  /\ UNCHANGED <<url, liked, playerRef>>

\* mutant: the quotient is taken the wrong way round
handleTimeUpdate_Inverted(currentTime, duration) ==
  /\ IF playerRef = "null" \/ view.seeking THEN UNCHANGED state
     ELSE IF ~TruthyNum(duration) THEN UNCHANGED state
     ELSE state' = [state EXCEPT
                      !.playedSeconds = currentTime,
                      !.played = Div(duration, currentTime)]
  /\ UNCHANGED <<url, liked, playerRef>>

\* player.currentTime and player.duration are read from the element
handleTimeUpdate(currentTime, duration) ==
  /\ IF playerRef = "null" \/ view.seeking THEN UNCHANGED state
     ELSE IF ~TruthyNum(duration) THEN UNCHANGED state
     ELSE state' = [state EXCEPT
                      !.playedSeconds = currentTime,
                      !.played = Div(currentTime, duration)]
  /\ UNCHANGED <<url, liked, playerRef>>

\* mutant: the end of the media always pauses, loop or not
handleEnded_AlwaysPauses ==
  /\ state' = [state EXCEPT !.playing = FALSE]
  /\ UNCHANGED <<url, liked, playerRef>>

handleEnded ==
  /\ state' = [state EXCEPT !.playing = state.loop]
  /\ UNCHANGED <<url, liked, playerRef>>

\* mutant: an unknown or zero duration is skipped, as in handleTimeUpdate
handleDurationChange_SkipsUnknown(duration) ==
  /\ IF playerRef = "null" \/ ~TruthyNum(duration) THEN UNCHANGED state
     ELSE state' = [state EXCEPT !.duration = duration]
  /\ UNCHANGED <<url, liked, playerRef>>

handleDurationChange(duration) ==
  /\ IF playerRef = "null" THEN UNCHANGED state
     ELSE state' = [state EXCEPT !.duration = duration]
  /\ UNCHANGED <<url, liked, playerRef>>

\* mutant: loading also starts playback
handleLoadCustomUrl_Autoplay ==
  /\ IF TruthyText(Trim(view.url))
     THEN state' = [state EXCEPT !.src = Str(view.url), !.playing = TRUE]
     ELSE UNCHANGED state
  /\ Commit(state'.src)
  /\ UNCHANGED <<url, liked>>

\* mutant: the url is tested without trim()
handleLoadCustomUrl_NoTrim ==
  /\ IF TruthyText(view.url)
     THEN state' = [state EXCEPT !.src = Str(view.url)]
     ELSE UNCHANGED state
  /\ Commit(state'.src)
  /\ UNCHANGED <<url, liked>>

handleLoadCustomUrl ==
  /\ IF TruthyText(Trim(view.url))
     THEN state' = [state EXCEPT !.src = Str(view.url)]
     ELSE UNCHANGED state
  /\ Commit(state'.src)
  /\ UNCHANGED <<url, liked>>

\* mutant: the preset is loaded but the url box is not updated
handlePresetSelect_SrcOnly(selectedKey) ==
  LET selectedVideo == FindPreset(selectedKey) IN
  IF selectedVideo # <<>>
  THEN /\ state' = [state EXCEPT !.src = Str(selectedVideo[1].url)]
       /\ Commit(state'.src)
       /\ UNCHANGED <<url, liked>>
  ELSE UNCHANGED <<state, url, liked, playerRef>>

handlePresetSelect(selectedKey) ==
  LET selectedVideo == FindPreset(selectedKey) IN
  IF selectedVideo # <<>>
  THEN /\ url' = selectedVideo[1].url
       /\ state' = [state EXCEPT !.src = Str(selectedVideo[1].url)]
       /\ Commit(state'.src)
       /\ UNCHANGED liked
  ELSE UNCHANGED <<state, url, liked, playerRef>>

onPlay ==
  /\ state' = [state EXCEPT !.playing = TRUE]
  /\ UNCHANGED <<url, liked, playerRef>>

\* mutant: the element's pause flips playing instead of clearing it
onPause_Flips ==
  /\ state' = [state EXCEPT !.playing = ~state.playing]
  /\ UNCHANGED <<url, liked, playerRef>>

onPause ==
  /\ state' = [state EXCEPT !.playing = FALSE]
  /\ UNCHANGED <<url, liked, playerRef>>

\* mutant: typing loads the text at once
setUrl_LoadsLive(text) ==
  /\ url' = text
  /\ state' = [state EXCEPT !.src = Str(text)]
  /\ UNCHANGED <<liked, playerRef>>

\* the url input's onChange
setUrl(text) ==
  /\ url' = text
  /\ UNCHANGED <<state, liked, playerRef>>

\* the heart button's onPress
setLiked ==
  /\ liked' = ~liked
  /\ UNCHANGED <<state, url, playerRef>>

\* ------------------------------------------------------------ the widget
\* ui = TRUE: the event comes through the rendered widget, so a disabled
\* button cannot be pressed and only a mounted ReactPlayer calls back.
\* ui = FALSE: the handler is called directly.
\* mutant: the play/pause button is not disabled without a source
PlayPause_NotDisabled(ui) ==
  handlePlayPause /\ Hist(Ev("playPause"))
PlayPause(ui) ==
  /\ ui => Truthy(view.src)
  /\ handlePlayPause /\ Hist(Ev("playPause"))
Stop(ui) ==
  /\ ui => Truthy(view.src)
  /\ handleStop /\ Hist(Ev("stop"))
ToggleMuted == handleToggleMuted /\ Hist(Ev("toggleMuted"))
ToggleLoop == handleToggleLoop /\ Hist(Ev("toggleLoop"))
Like == setLiked /\ Hist(Ev("like"))
TypeUrl == \E text \in UrlTexts : setUrl(text) /\ Hist(Ev("setUrl"))
Load(ui) ==
  /\ ui => TruthyText(Trim(view.url))
  /\ handleLoadCustomUrl /\ Hist(Ev("load"))
PresetSelect(ui) ==
  \E selectedKey \in PresetKeys :
    /\ ui => selectedKey \in {presetVideos[i].key : i \in DOMAIN presetVideos}
    /\ handlePresetSelect(selectedKey)
    /\ Hist([Ev("preset") EXCEPT !.key = selectedKey])
Play(ui) ==
  /\ ui => Truthy(view.src)
  /\ onPlay /\ Hist(Ev("play"))
Pause(ui) ==
  /\ ui => Truthy(view.src)
  /\ onPause /\ Hist(Ev("pause"))
Ended(ui) ==
  /\ ui => Truthy(view.src)
  /\ handleEnded /\ Hist(Ev("ended"))
TimeUpdate(ui) ==
  /\ ui => Truthy(view.src)
  /\ \E duration \in Durations : \E currentTime \in TimesOf(duration) :
       /\ handleTimeUpdate(currentTime, duration)
       /\ Hist([Ev("timeUpdate") EXCEPT !.currentTime = currentTime,
                                        !.duration = duration])
Progress(ui) ==
  /\ ui => Truthy(view.src)
  /\ \E duration \in Durations : \E buffered \in BufferedOf(duration) :
       /\ handleProgress(buffered, duration)
       /\ Hist([Ev("progress") EXCEPT
                  !.bufferedLength = Len(buffered),
                  !.bufferedEnd = IF buffered = <<>> THEN NaN
                                  ELSE buffered[Len(buffered)],
                  !.duration = duration])
DurationChange(ui) ==
  /\ ui => Truthy(view.src)
  /\ \E duration \in Durations :
       /\ handleDurationChange(duration)
       /\ Hist([Ev("durationChange") EXCEPT !.duration = duration])

Events(ui) ==
  \/ PlayPause(ui) \/ Stop(ui) \/ ToggleMuted \/ ToggleLoop \/ Like
  \/ TypeUrl \/ Load(ui) \/ PresetSelect(ui)
  \/ Play(ui) \/ Pause(ui) \/ Ended(ui)
  \/ TimeUpdate(ui) \/ Progress(ui) \/ DurationChange(ui)

\* the mounted widget, driven through its controls and its player
Init ==
  /\ state = initialState
  /\ url = defaultUrl
  /\ liked = FALSE
  /\ playerRef = "null"
  /\ lastEv = Ev("init")
  /\ before = [run |-> 0, w |-> NoWorld]
  /\ scenario = "start"
  /\ lastDuration = [seen |-> FALSE, value |-> NaN]
  /\ view = ViewOf(state, url)
  /\ batch = 0
Next == Events(TRUE)
Spec == Init /\ [][Next]_vars

\* the handlers called directly, on any PlayerState: any src, any flags,
\* and progress fields as some earlier clock of the element left them
Progresses ==
  {[seconds |-> t, fraction |-> Div(t, ScenarioClock.duration)] :
     t \in TimesOf(ScenarioClock.duration)}
InitAny ==
  /\ \E src \in {undefined, Str(<<>>), Str(<<" ", "a">>)},
        playing, muted, loop, seeking \in BOOLEAN,
        duration \in {NaN, ScenarioClock.duration}, p \in Progresses :
       state = [initialState EXCEPT
                  !.src = src, !.playing = playing, !.muted = muted,
                  !.loop = loop, !.seeking = seeking, !.duration = duration,
                  !.playedSeconds = p.seconds, !.played = p.fraction,
                  !.loadedSeconds = p.seconds, !.loaded = p.fraction]
  /\ url = defaultUrl
  /\ liked = FALSE
  /\ playerRef \in IF Truthy(state.src) THEN {"element"}
                   ELSE {"null", "element"}
  /\ lastEv = Ev("init")
  /\ before = [run |-> 0, w |-> NoWorld]
  /\ scenario = "off"
  /\ lastDuration = [seen |-> TRUE, value |-> state.duration]
  /\ view = ViewOf(state, url)
  /\ batch = 0
\* the operations whose contract is stated for any prior state
NextAny ==
  \/ PlayPause(FALSE) \/ Stop(FALSE) \/ ToggleMuted \/ ToggleLoop
  \/ TypeUrl \/ Load(FALSE) \/ PresetSelect(FALSE)
  \/ Play(FALSE) \/ Pause(FALSE) \/ Ended(FALSE)
  \/ TimeUpdate(FALSE) \/ Progress(FALSE)
SpecAny == InitAny /\ [][NextAny]_vars

\* the widget when several events are delivered before the next render: the
\* handlers and controls of the last render stay in use, while each updater
\* is applied to the latest pending state.  (The ref callback of a mount is
\* taken with the handler that sets src; the player calls back only once the
\* render has shown it.)
StartBatch ==
  /\ batch = 0
  /\ \E n \in 2..MaxBatch :
       /\ batch' = n
       /\ lastEv' = Ev("batch")
       /\ before' = BeforeNext("batch")
       /\ scenario' = ScenarioNext(Ev("batch"))
  /\ UNCHANGED <<state, url, liked, playerRef, lastDuration, view>>
NextBatch == Events(TRUE) \/ StartBatch
SpecBatch == Init /\ [][NextBatch]_vars

\* =================================================================== claims
\* the fractions p of the claims: the element's, and the scenario's 30/120
ClaimFractions ==
  Fractions \cup {Div(ScenarioClock.currentTime, ScenarioClock.duration)}
\* Idle / Loaded-Paused / Loaded-Playing, derived from src and playing
LoadedPaused(s) == Truthy(s.src) /\ ~s.playing
CatalogKeys == {presetVideos[i].key : i \in DOMAIN presetVideos}
CatalogUrl(key) ==
  presetVideos[CHOOSE i \in DOMAIN presetVideos : presetVideos[i].key = key].url
ProgressFields(s) == <<s.played, s.loaded, s.playedSeconds, s.loadedSeconds>>
InUnit(x) == Leq(Num(0), x) /\ Leq(x, Num(1))

\* C1: after stop(), whatever the state before it, src is absent
\* (undefined) and playing is false.
C1_StopYieldsIdle ==
  lastEv.op = "stop" => (state.src = undefined /\ ~state.playing)
\* stop has run on a state that had progress, loop and mute set
C1_Witness ==
  /\ lastEv.op = "stop"
  /\ state.loop /\ state.muted
  /\ state.playedSeconds # Num(0)

\* C2: onEnded() sets playing to the value loop had before the call,
\* whatever playing and src were, and changes nothing else.
C2_EndedSetsPlayingToLoop ==
  [][lastEv'.op = "ended" =>
       /\ state' = [state EXCEPT !.playing = state.loop]
       /\ url' = url /\ liked' = liked]_vars
\* onEnded has run with loop on and no source: playing is true
C2_Witness ==
  /\ lastEv.op = "ended"
  /\ state.loop /\ state.playing
  /\ ~Truthy(state.src)

\* C3: selectPreset(key) with a key of the catalog sets src and the url
\* text to that preset's URL; with any other key the whole state (PlayerState,
\* url, liked) is unchanged.
C3_PresetSelect ==
  [][lastEv'.op = "preset" =>
       IF lastEv'.key \in CatalogKeys
       THEN /\ state'.src = Str(CatalogUrl(lastEv'.key))
            /\ url' = CatalogUrl(lastEv'.key)
       ELSE World' = World]_vars
\* a catalog key has been selected: src and url hold its URL
C3_Witness ==
  /\ lastEv.op = "preset"
  /\ lastEv.key \in CatalogKeys
  /\ url = CatalogUrl(lastEv.key)
  /\ state.src = Str(url)

\* C4: loadSource with a url that is non-empty after trimming sets src to
\* the url (as typed) and leaves playing as it was; loaded while playing is
\* false, the source is Loaded-Paused.
C4_LoadKeepsPlaying ==
  [][(lastEv'.op = "load" /\ TruthyText(Trim(url))) =>
       /\ state'.src = Str(url)
       /\ state'.playing = state.playing
       /\ (~state.playing => LoadedPaused(state'))]_vars
\* a url with leading whitespace has been loaded as typed, paused
C4_Witness ==
  /\ lastEv.op = "load"
  /\ url # Trim(url)
  /\ state.src = Str(url)
  /\ LoadedPaused(state)

\* C5: loadSource with an empty or whitespace-only url changes nothing:
\* PlayerState (which has no error field), url and liked keep their values.
C5_BlankLoadIsNoOp ==
  [][(lastEv'.op = "load" /\ ~TruthyText(Trim(url))) => World' = World]_vars
\* load has been called with a whitespace-only url
C5_Witness ==
  /\ lastEv.op = "load"
  /\ url # <<>>
  /\ ~TruthyText(Trim(url))

\* C6: while seeking is true, onProgress and onTimeUpdate leave played,
\* loaded, playedSeconds and loadedSeconds unchanged.
C6_SeekingFreezesProgress ==
  [][(state.seeking /\ lastEv'.op \in {"progress", "timeUpdate"}) =>
       ProgressFields(state') = ProgressFields(state)]_vars
\* onProgress has run while seeking, with the element present and a buffered
\* range whose end differs from the stored loadedSeconds
C6_Witness ==
  /\ state.seeking
  /\ lastEv.op = "progress"
  /\ playerRef = "element"
  /\ lastEv.bufferedLength > 0
  /\ lastEv.bufferedEnd # state.loadedSeconds

\* C7 as stated: with seeking false (and the element present), for every
\* fraction p in [0,1] and every duration d >= 0, onTimeUpdate(p*d, d) yields
\* played = p and playedSeconds = p*d.
C7_Original ==
  [][(lastEv'.op = "timeUpdate" /\ ~state.seeking /\ playerRef = "element"
      /\ IsFinite(lastEv'.duration)) =>
       \A p \in ClaimFractions :
         lastEv'.currentTime = Mul(p, lastEv'.duration) =>
           /\ state'.played = p
           /\ state'.playedSeconds = Mul(p, lastEv'.duration)]_vars
\* C7 amended: the same for every duration d > 0.
C7_TimeUpdateFraction ==
  [][(lastEv'.op = "timeUpdate" /\ ~state.seeking /\ playerRef = "element"
      /\ IsFinite(lastEv'.duration) /\ lastEv'.duration # Num(0)) =>
       \A p \in ClaimFractions :
         lastEv'.currentTime = Mul(p, lastEv'.duration) =>
           /\ state'.played = p
           /\ state'.playedSeconds = Mul(p, lastEv'.duration)]_vars
\* onTimeUpdate has run half way through a positive duration
C7_Witness ==
  /\ lastEv.op = "timeUpdate"
  /\ IsFinite(lastEv.duration) /\ lastEv.duration # Num(0)
  /\ lastEv.currentTime = Mul(Norm(1, 2), lastEv.duration)
  /\ state.played = Norm(1, 2)
  /\ state.playedSeconds = lastEv.currentTime

\* C8: togglePlaying, toggleMuted and toggleLoop are involutions: the same
\* toggle applied twice in a row gives back the whole state it started from.
C8_TogglesAreInvolutions ==
  before.run = 2 => World = before.w
\* togglePlaying has been applied twice in a row, with no source loaded
C8_Witness ==
  /\ before.run = 2
  /\ lastEv.op = "playPause"
  /\ ~Truthy(state.src)

\* C9: the end-to-end scenario from the initial state (no source, playing
\* and loop false): after loading a non-blank url src is set and playing is
\* still false; after togglePlaying playing is true; after
\* onTimeUpdate(30, 120) played = 1/4 and playedSeconds = 30; after onEnded
\* playing is false.
C9_Scenario ==
  /\ scenario = "start" =>
       ~Truthy(state.src) /\ ~state.playing /\ ~state.loop
  /\ scenario = "loaded" =>
       Truthy(state.src) /\ state.src = Str(url) /\ ~state.playing
  /\ scenario = "playing" => state.playing
  /\ scenario = "timed" =>
       state.played = Norm(1, 4) /\ state.playedSeconds = Num(30)
  /\ scenario = "ended" => ~state.playing /\ ~state.loop
\* the scenario has been run to its end
C9_Witness == scenario = "ended" /\ lastEv.op = "ended"

\* C10: in every reachable state played and loaded are fractions in [0,1],
\* the element reporting 0 <= currentTime <= duration and
\* 0 <= bufferedEnd <= duration, duration 0 or unknown (NaN) included.
C10_FractionsInUnit ==
  InUnit(state.played) /\ InUnit(state.loaded)
\* JavaScript a === b on numbers: NaN equals nothing
NumEq(a, b) == ~IsNaN(a) /\ ~IsNaN(b) /\ a = b

\* C11: in every reachable state the absolute and the fractional progress
\* agree with the stored duration: playedSeconds = played * duration and
\* loadedSeconds = loaded * duration.
C11_SecondsMatchFractions ==
  /\ NumEq(state.playedSeconds, Mul(state.played, state.duration))
  /\ NumEq(state.loadedSeconds, Mul(state.loaded, state.duration))
\* C12: driven through the widget's controls and its player, src absent
\* implies playing = false; Idle is left only by loadSource or selectPreset,
\* and then into Loaded-Paused.
C12_IdleIsPaused ==
  /\ [](~Truthy(state.src) => ~state.playing)
  /\ [][(~Truthy(state.src) /\ (Truthy(state'.src) \/ state'.playing)) =>
          /\ lastEv'.op \in {"load", "preset"}
          /\ LoadedPaused(state')]_vars
\* the widget is back in Idle, by stop, after media has been played
C12_Witness ==
  /\ lastEv.op = "stop"
  /\ state.src = undefined /\ ~state.playing
  /\ TruthyNum(state.played)
\* C13: playing is one last-write-wins field: onPlay sets it to true and
\* onPause to false whatever it was, changing nothing else, and after each of
\* togglePlaying, stop, onPlay, onPause, onEnded its value is the one that
\* event alone determines from the state before it.
C13_PlayingLastWriteWins ==
  [][/\ lastEv'.op = "play" =>
          (state' = [state EXCEPT !.playing = TRUE]
           /\ url' = url /\ liked' = liked)
     /\ lastEv'.op = "pause" =>
          (state' = [state EXCEPT !.playing = FALSE]
           /\ url' = url /\ liked' = liked)
     /\ lastEv'.op = "playPause" => state'.playing = ~state.playing
     /\ lastEv'.op = "stop" => state'.playing = FALSE
     /\ lastEv'.op = "ended" => state'.playing = state.loop]_vars
\* the element has reported a pause on a loaded source with loop on
C13_Witness ==
  /\ lastEv.op = "pause"
  /\ ~state.playing /\ state.loop
  /\ Truthy(state.src)
\* C14: onProgress with seeking false, the element present and at least one
\* buffered range sets loadedSeconds to the end of the last range and loaded
\* to that end divided by the element's duration, and nothing else; with the
\* element absent, seeking true or no buffered range the state is unchanged.
C14_ProgressEffect ==
  [][lastEv'.op = "progress" =>
       /\ url' = url /\ liked' = liked
       /\ IF playerRef # "null" /\ ~state.seeking
             /\ lastEv'.bufferedLength >= 1
          THEN state' = [state EXCEPT
                           !.loadedSeconds = lastEv'.bufferedEnd,
                           !.loaded = Div(lastEv'.bufferedEnd,
                                          lastEv'.duration)]
          ELSE state' = state]_vars
\* onProgress has run with two buffered ranges and a known duration
C14_Witness ==
  /\ lastEv.op = "progress"
  /\ lastEv.bufferedLength = 2
  /\ TruthyNum(lastEv.duration)
  /\ ~state.seeking /\ playerRef = "element"
  /\ state.loadedSeconds = lastEv.bufferedEnd
  /\ state.loaded = Div(lastEv.bufferedEnd, lastEv.duration)
\* C15: the url text and src are independent until a load: editing the url
\* changes only url, and src is changed only by loadSource, selectPreset or
\* stop.
C15_UrlIndependentOfSrc ==
  [][/\ lastEv'.op = "setUrl" => (state' = state /\ liked' = liked)
     /\ state'.src # state.src =>
          lastEv'.op \in {"load", "preset", "stop"}]_vars
\* a different, loadable url has been typed while a source is loaded
C15_Witness ==
  /\ lastEv.op = "setUrl"
  /\ TruthyText(Trim(url))
  /\ Truthy(state.src)
  /\ state.src # Str(url)

\* C16: stop() changes only src and playing; every other field and the url
\* text keep their values, and a following loadSource changes only src, so
\* the stale values stay until the element calls back.
C16_StopKeepsProgress ==
  [][/\ lastEv'.op = "stop" =>
          /\ state' = [state EXCEPT !.src = undefined, !.playing = FALSE]
          /\ url' = url /\ liked' = liked
     /\ lastEv'.op = "load" =>
          /\ state' = [state EXCEPT !.src = state'.src]
          /\ url' = url /\ liked' = liked]_vars
\* a url has been loaded into the paused widget while the progress and the
\* duration of earlier media are still stored
C16_Witness ==
  /\ lastEv.op = "load"
  /\ LoadedPaused(state)
  /\ TruthyNum(state.played) /\ TruthyNum(state.playedSeconds)
  /\ TruthyNum(state.duration)
\* C17: duration is 0 until the first onDurationChange and from then on is
\* the duration of the most recent onDurationChange; nothing else (stop,
\* loadSource, selectPreset, onTimeUpdate, onProgress, ...) changes it.
C17_DurationIsLastReported ==
  /\ [](state.duration =
          IF lastDuration.seen THEN lastDuration.value ELSE Num(0))
  /\ [][lastEv'.op # "durationChange" =>
          state'.duration = state.duration]_vars
\* a preset has been selected and the duration reported before it is still
\* stored
C17_Witness ==
  /\ lastEv.op = "preset"
  /\ lastDuration.seen
  /\ TruthyNum(state.duration)
  /\ state.duration = lastDuration.value
\* C18: seeking is false in every reachable state of the widget: it starts
\* false and no handler writes it, so the seeking guard never suppresses an
\* onProgress or onTimeUpdate.
C18_NeverSeeking ==
  /\ [](~state.seeking)
  /\ [][state'.seeking = state.seeking]_vars
\* onTimeUpdate(30, 120) has passed the guard and been stored
C18_Witness ==
  /\ lastEv.op = "timeUpdate"
  /\ ~state.seeking
  /\ lastEv.currentTime = ScenarioClock.currentTime
  /\ state.playedSeconds = ScenarioClock.currentTime
  /\ state.played = Div(ScenarioClock.currentTime, ScenarioClock.duration)
\* the state and the url that an event gives when its transition is applied
\* on its own to the state s and the url u
SerialState(ev, s, u) ==
  CASE ev.op = "playPause" -> [s EXCEPT !.playing = ~s.playing]
    [] ev.op = "stop" -> [s EXCEPT !.src = undefined, !.playing = FALSE]
    [] ev.op = "toggleMuted" -> [s EXCEPT !.muted = ~s.muted]
    [] ev.op = "toggleLoop" -> [s EXCEPT !.loop = ~s.loop]
    [] ev.op = "play" -> [s EXCEPT !.playing = TRUE]
    [] ev.op = "pause" -> [s EXCEPT !.playing = FALSE]
    [] ev.op = "ended" -> [s EXCEPT !.playing = s.loop]
    [] ev.op = "timeUpdate" ->
         IF playerRef # "null" /\ ~s.seeking /\ TruthyNum(ev.duration)
         THEN [s EXCEPT !.playedSeconds = ev.currentTime,
                        !.played = Div(ev.currentTime, ev.duration)]
         ELSE s
    [] ev.op = "progress" ->
         IF playerRef # "null" /\ ~s.seeking /\ ev.bufferedLength >= 1
         THEN [s EXCEPT !.loadedSeconds = ev.bufferedEnd,
                        !.loaded = Div(ev.bufferedEnd, ev.duration)]
         ELSE s
    [] ev.op = "durationChange" ->
         IF playerRef # "null" THEN [s EXCEPT !.duration = ev.duration]
         ELSE s
    [] ev.op = "load" ->
         IF TruthyText(Trim(u)) THEN [s EXCEPT !.src = Str(u)] ELSE s
    [] ev.op = "preset" ->
         IF ev.key \in CatalogKeys
         THEN [s EXCEPT !.src = Str(CatalogUrl(ev.key))] ELSE s
    [] OTHER -> s
SerialUrl(ev, u) ==
  IF ev.op = "preset" /\ ev.key \in CatalogKeys THEN CatalogUrl(ev.key)
  ELSE u
BatchOps ==
  {"playPause", "stop", "toggleMuted", "toggleLoop", "play", "pause",
   "ended", "timeUpdate", "progress", "durationChange", "load", "preset"}

\* C19: no update is lost under batching: when events are delivered before
\* a re-render, each one changes the latest pending state exactly as its
\* transition applied on its own would, so the result of the batch is that
\* of applying the transitions one at a time in delivery order.  (Only the
\* events the claim lists are followed: inside a batch the event delivered
\* just before must be one of them too, or the opening of the batch.)
C19_BatchEqualsSerial ==
  [][(/\ lastEv'.op \in BatchOps
      /\ batch # 0 => lastEv.op \in BatchOps \cup {"batch"}) =>
       /\ state' = SerialState(lastEv', state, url)
       /\ url' = SerialUrl(lastEv', url)]_vars
====
